---- MODULE Spec2Model ----
(***************************************************************************)
(* PaddingFreeAccelerationPlugin (framework_plugin_padding_free.py).       *)
(*                                                                         *)
(* The plugin acts on objects owned by the host framework: the model       *)
(* patcher's rule registry, the warnings stream, the accelerator (its      *)
(* `prepare` attribute) and the data loaders (their `collate_fn`).  The    *)
(* state below is that of those objects; every action is one call of a     *)
(* plugin method or of accelerator.prepare by the host.                    *)
(***************************************************************************)
EXTENDS Naturals, Sequences, FiniteSets, TLC

VARIABLES
    transformers_version,  \* the installed transformers.__version__
    registered,            \* ModelPatcher.register calls received, in order
    warned,                \* number of warnings.warn calls received
    accel_prepare,         \* accelerator.prepare: number of `prepare` closures
                           \* stacked on Accelerator.prepare (0: the original)
    dataloaders,           \* the host's DataLoader objects, by identity
    next_id,               \* identity of the next object to be constructed
    assigns,               \* how often each host attribute has been assigned
    last                   \* the most recent call: inputs, outcome, calls that
                           \* reached the original Accelerator.prepare

vars == <<transformers_version, registered, warned, accel_prepare,
          dataloaders, next_id, assigns, last>>

---------------------------------------------------------------------------
(* Bounds of the model *)

MaxArgs == 2        \* positional arguments in one accelerator.prepare call
MaxAugment == 1     \* calls of augmentation
MaxPatches == 2     \* calls of get_callbacks_and_ready_for_train

DataLoaders == {"dl1", "dl2"}
OtherObjects == {"model"}
Objects == DataLoaders \cup OtherObjects
DevicePlacements == {"None", "[True]"}
ModelTypes == {"llama", "mistral"}
ModifiableArgs == {<<>>, <<"lora_config">>}
ClassNames == { <<"Llama", "FlashAttention2">>, <<"Llama", "Attention">>,
                <<"FlashAttention2", "Wrapper">>, <<"Llama", "SdpaAttention">> }

\* Installed versions: release numbers and the pre-release segment.
Versions ==
    { [release |-> <<4, 9, 0>>,  pre |-> "final"],    \* "4.9.0"
      [release |-> <<4, 43, 3>>, pre |-> "final"],    \* "4.43.3"
      [release |-> <<4, 44, 0>>, pre |-> "dev"],      \* "4.44.0.dev0"
      [release |-> <<4, 44>>,    pre |-> "final"],    \* "4.44"
      [release |-> <<4, 44, 0>>, pre |-> "final"],    \* "4.44.0"
      [release |-> <<4, 45, 0>>, pre |-> "dev"] }     \* "4.45.0.dev0"

\* The positional arguments of one call: distinct objects, in any order.
ArgTuples ==
    UNION { {a \in [1..n -> Objects] : \A i, j \in 1..n : a[i] = a[j] => i = j}
            : n \in 0..MaxArgs }

---------------------------------------------------------------------------
(* version.parse(a) < version.parse(b) *)

\* This is the version where padding-free was merged into transformers
TRANSFORMERS_VERSION == [release |-> <<4, 44>>, pre |-> "final"]

RECURSIVE StripTrailingZeros(_)
StripTrailingZeros(r) ==
    IF Len(r) > 0 /\ r[Len(r)] = 0
    THEN StripTrailingZeros(SubSeq(r, 1, Len(r) - 1))
    ELSE r

\* Order of the pre-release segment: a dev release sorts before a release
\* candidate, which sorts before the final release.
PreRank(p) == IF p = "dev" THEN 0 ELSE IF p = "rc" THEN 1 ELSE 2

\* version.parse: the comparison key of a version.
VersionParse(v) == [release |-> StripTrailingZeros(v.release), pre |-> PreRank(v.pre)]

\* Python's tuple order: the first differing item decides, a proper prefix is less.
RECURSIVE TupleLess(_, _)
TupleLess(a, b) ==
    IF Len(b) = 0 THEN FALSE
    ELSE IF Len(a) = 0 THEN TRUE
    ELSE IF a[1] # b[1] THEN a[1] < b[1]
    ELSE TupleLess(Tail(a), Tail(b))

VersionLessOrEqual(a, b) ==
    \/ TupleLess(a.release, b.release)
    \/ a.release = b.release /\ a.pre <= b.pre

VersionLess(a, b) ==
    \/ TupleLess(a.release, b.release)
    \/ a.release = b.release /\ a.pre < b.pre

\* version.parse(transformers_version) < version.parse(TRANSFORMERS_VERSION)
BelowThreshold(v) == VersionLess(VersionParse(v), VersionParse(TRANSFORMERS_VERSION))

---------------------------------------------------------------------------
(* Values *)

None == [tag |-> "None", ref |-> "None", items |-> <<>>, dp |-> "None"]
Ref(o) == [tag |-> "object", ref |-> o, items |-> <<>>, dp |-> "None"]
List(s) == [tag |-> "list", ref |-> "None", items |-> s, dp |-> "None"]
Pair(o, s) == [tag |-> "tuple", ref |-> o, items |-> s, dp |-> "None"]
\* What Accelerator.prepare returns for a call: opaque, fixed by the call.
Prepared(args, dp) == [tag |-> "prepared", ref |-> "None", items |-> args, dp |-> dp]

Return(v) == [kind |-> "return", exc |-> "None", value |-> v]
Raise(e) == [kind |-> "raise", exc |-> e, value |-> None]

Collator(cls, id) == [cls |-> cls, id |-> id]
HostCollators == {Collator("DataCollatorForSeq2Seq", 0), Collator("DefaultDataCollator", 0)}

---------------------------------------------------------------------------
(* augmentation *)

\* is_flash_attn_2(module): module.__class__.__name__.endswith("FlashAttention2")
is_flash_attn_2_startswith(class_name) ==
    Len(class_name) > 0 /\ class_name[1] = "FlashAttention2"

is_flash_attn_2(class_name) ==
    Len(class_name) > 0 /\ class_name[Len(class_name)] = "FlashAttention2"

\* The rule handed to ModelPatcher.register.  The trigger is a closure; it is
\* represented by the class names it accepts.
ModelPatcherRule(model_type) ==
    [rule_id |-> model_type \o "-pad-free",
     trigger |-> {c \in ClassNames : is_flash_attn_2(c)},
     forward_builder |-> "partial(build_fa_forward, causal=True)"]

NoCall == [op |-> "none", args |-> <<>>, device_placement |-> "None",
           model |-> "None", modifiable_args |-> <<>>,
           outcome |-> [kind |-> "none", exc |-> "None", value |-> None],
           old_calls |-> <<>>]

Augmentation ==
    /\ Len(registered) + warned < MaxAugment
    /\ \E model_type \in ModelTypes, modifiable_args \in ModifiableArgs :
        /\ IF BelowThreshold(transformers_version)
           THEN /\ registered' = Append(registered, ModelPatcherRule(model_type))
                /\ warned' = warned
           ELSE /\ warned' = warned + 1
                /\ registered' = registered
        /\ last' = [NoCall EXCEPT !.op = "augmentation",
                                  !.model = model_type,
                                  !.modifiable_args = modifiable_args,
                                  !.outcome = Return(Pair(model_type, modifiable_args))]
    /\ UNCHANGED <<transformers_version, accel_prepare, dataloaders, next_id, assigns>>

---------------------------------------------------------------------------
(* _patch_dataloader and the `prepare` closure it installs *)

isinstance_DataLoader(o) == o \in DataLoaders

\* isinstance(collate_fn, DataCollatorForSeq2Seq).  Both DataCollatorWithFlattening
\* classes derive from DefaultDataCollator, not from DataCollatorForSeq2Seq.
isinstance_Seq2Seq_or_flattening(c) ==
    c.cls \in {"DataCollatorForSeq2Seq", "ilab_utils.DataCollatorWithFlattening",
               "transformers.DataCollatorWithFlattening"}

isinstance_DataCollatorForSeq2Seq(c) == c.cls = "DataCollatorForSeq2Seq"

\* The class bound to the name DataCollatorWithFlattening in _patch_dataloader.
import_always_local(v) == "ilab_utils.DataCollatorWithFlattening"

import_DataCollatorWithFlattening(v) ==
    IF BelowThreshold(v)
    THEN "ilab_utils.DataCollatorWithFlattening"
    ELSE "transformers.DataCollatorWithFlattening"

\* The original Accelerator.prepare (host code): it receives the call and returns
\* its own result; it assigns no collate_fn of the loaders it is given.
Accelerator_prepare(args, dp, dls, id) ==
    [outcome |-> Return(Prepared(args, dp)), dataloaders |-> dls, next_id |-> id,
     assigned |-> {}, old_calls |-> << [args |-> args, device_placement |-> dp] >>]

Raised(e, dls, id) ==
    [outcome |-> Raise(e), dataloaders |-> dls, next_id |-> id,
     assigned |-> {}, old_calls |-> <<>>]

RECURSIVE accelerator_prepare(_, _, _, _, _, _)

\* The body of `prepare` (lines 134-147); old is the depth of _old_prepare.
prepare_body(old, args, dp, dls, id, cls) ==
    IF Len(args) > 1 THEN accelerator_prepare(old, args, dp, dls, id, cls)
    ELSE IF Len(args) = 0 THEN Raised("IndexError", dls, id)   \* args[0] of ()
    ELSE IF ~isinstance_DataLoader(args[1])
    THEN accelerator_prepare(old, args, dp, dls, id, cls)
    ELSE LET dataloader == args[1] IN
         IF ~isinstance_DataCollatorForSeq2Seq(dls[dataloader].collate_fn)
         THEN Raised("TypeError", dls, id)
         ELSE [outcome |-> Return(Ref(dataloader)),
               dataloaders |-> [dls EXCEPT ![dataloader].collate_fn = Collator(cls, id)],
               next_id |-> id + 1,
               assigned |-> {dataloader},
               old_calls |-> <<>>]

\* Variants of `prepare` with one slip each.
\* The collate_fn is replaced before its type is checked.
prepare_replace_before_check(old, args, dp, dls, id, cls) ==
    LET r == prepare_body(old, args, dp, dls, id, cls) IN
    IF r.outcome.exc = "TypeError"
    THEN [r EXCEPT !.dataloaders = [dls EXCEPT ![args[1]].collate_fn = Collator(cls, id)],
                   !.next_id = id + 1,
                   !.assigned = {args[1]}]
    ELSE r

\* device_placement is not passed on to _old_prepare.
prepare_drops_device_placement(old, args, dp, dls, id, cls) ==
    prepare_body(old, args, "None", dls, id, cls)

\* The data loader is handed to _old_prepare after its collate_fn is replaced.
prepare_then_old_prepare(old, args, dp, dls, id, cls) ==
    LET r == prepare_body(old, args, dp, dls, id, cls) IN
    IF r.assigned # {}
    THEN [accelerator_prepare(old, args, dp, r.dataloaders, r.next_id, cls)
             EXCEPT !.assigned = r.assigned]
    ELSE r

prepare(old, args, dp, dls, id, cls) == prepare_body(old, args, dp, dls, id, cls)

\* accelerator.prepare(*args, device_placement=dp) with k closures installed.
accelerator_prepare(k, args, dp, dls, id, cls) ==
    IF k = 0 THEN Accelerator_prepare(args, dp, dls, id)
    ELSE prepare(k - 1, args, dp, dls, id, cls)

\* get_callbacks_and_ready_for_train(model, accelerator): _patch_dataloader
\* wraps the current accelerator.prepare in a new closure and returns [].
patch_dataloader(k) == k + 1

GetCallbacksAndReadyForTrain ==
    /\ accel_prepare < MaxPatches
    /\ accel_prepare' = patch_dataloader(accel_prepare)
    /\ assigns' = [assigns EXCEPT !.prepare = @ + 1]    \* line 149
    /\ last' = [NoCall EXCEPT !.op = "get_callbacks_and_ready_for_train",
                              !.outcome = Return(List(<<>>))]
    /\ UNCHANGED <<transformers_version, registered, warned, dataloaders, next_id>>

\* The host calls accelerator.prepare(*args, device_placement=dp).
Prepare ==
    \E args \in ArgTuples, dp \in DevicePlacements :
        LET r == accelerator_prepare(accel_prepare, args, dp, dataloaders, next_id,
                     import_DataCollatorWithFlattening(transformers_version))
        IN  /\ dataloaders' = r.dataloaders
            /\ next_id' = r.next_id
            /\ assigns' = [assigns EXCEPT !.collate_fn =
                              [d \in DataLoaders |-> IF d \in r.assigned THEN @[d] + 1 ELSE @[d]]]
            /\ last' = [NoCall EXCEPT !.op = "prepare",
                                      !.args = args,
                                      !.device_placement = dp,
                                      !.outcome = r.outcome,
                                      !.old_calls = r.old_calls]
            /\ UNCHANGED <<transformers_version, registered, warned, accel_prepare>>

---------------------------------------------------------------------------

Init ==
    /\ transformers_version \in Versions
    /\ registered = <<>>
    /\ warned = 0
    /\ accel_prepare = 0
    /\ dataloaders \in [DataLoaders -> [collate_fn : HostCollators, batch_size : {8}]]
    /\ next_id = 1
    /\ assigns = [prepare |-> 0, collate_fn |-> [d \in DataLoaders |-> 0]]
    /\ last = NoCall

Next == Augmentation \/ GetCallbacksAndReadyForTrain \/ Prepare

Spec == Init /\ [][Next]_vars

TypeOK ==
    /\ transformers_version \in Versions
    /\ warned \in 0..MaxAugment
    /\ accel_prepare \in 0..MaxPatches
    /\ \A d \in DataLoaders : dataloaders[d].batch_size = 8

---------------------------------------------------------------------------
(* Properties *)

\* "Strictly below 4.44", stated on the version's numbers.
Below444(v) ==
    LET major == v.release[1]
        minor == IF Len(v.release) >= 2 THEN v.release[2] ELSE 0
    IN  \/ major < 4
        \/ major = 4 /\ minor < 44
        \/ /\ major = 4 /\ minor = 44
           /\ \A i \in 3..Len(v.release) : v.release[i] = 0
           /\ v.pre # "final"

IsSeq2Seq(c) == c.cls = "DataCollatorForSeq2Seq"
IsFlattening(c) ==
    c.cls \in {"ilab_utils.DataCollatorWithFlattening",
               "transformers.DataCollatorWithFlattening"}

\* The step is a call of the patched accelerator.prepare.
PatchedCall == last'.op = "prepare" /\ accel_prepare >= 1
\* The state follows a call of the patched accelerator.prepare.
AfterPatchedCall == last.op = "prepare" /\ accel_prepare >= 1

\* Only d's collate_fn differs between the state before and after the step.
OnlyCollateFnOf(d) ==
    /\ \A e \in DataLoaders \ {d} : dataloaders'[e] = dataloaders[e]
    /\ dataloaders'[d] = [dataloaders[d] EXCEPT !.collate_fn = dataloaders'[d].collate_fn]

\* C1: a patched prepare call with exactly one positional argument, a DataLoader
\* whose collate_fn is not a DataCollatorForSeq2Seq, raises TypeError; the data
\* loader's collate_fn is left as it was and the original prepare is not invoked.
C1_TypeErrorLeavesLoader ==
    [][\A d \in DataLoaders :
         (PatchedCall /\ last'.args = <<d>> /\ ~IsSeq2Seq(dataloaders[d].collate_fn))
         => /\ last'.outcome = Raise("TypeError")
            /\ dataloaders' = dataloaders
            /\ assigns' = assigns
            /\ last'.old_calls = <<>>]_vars

C1_Witness ==
    /\ AfterPatchedCall
    /\ Len(last.args) = 1 /\ last.args[1] \in DataLoaders
    /\ dataloaders[last.args[1]].collate_fn.cls = "DefaultDataCollator"
    /\ last.outcome.exc = "TypeError"

\* C2: a patched prepare call with exactly one positional argument, a DataLoader
\* whose collate_fn is a DataCollatorForSeq2Seq, returns that same data loader with
\* its collate_fn a newly created DataCollatorWithFlattening: the plugin's local
\* class below transformers 4.44, the framework's own otherwise; nothing else of
\* the data loader changes.
C2_CollateFnReplaced ==
    [][\A d \in DataLoaders :
         (PatchedCall /\ last'.args = <<d>> /\ IsSeq2Seq(dataloaders[d].collate_fn))
         => /\ last'.outcome = Return(Ref(d))
            /\ dataloaders'[d].collate_fn.cls =
                  IF Below444(transformers_version)
                  THEN "ilab_utils.DataCollatorWithFlattening"
                  ELSE "transformers.DataCollatorWithFlattening"
            /\ \A e \in DataLoaders :
                  dataloaders'[d].collate_fn.id # dataloaders[e].collate_fn.id
            /\ OnlyCollateFnOf(d)]_vars

C2_Witness ==
    /\ AfterPatchedCall
    /\ Len(last.args) = 1 /\ last.args[1] \in DataLoaders
    /\ last.outcome = Return(Ref(last.args[1]))
    /\ dataloaders[last.args[1]].collate_fn.cls = "transformers.DataCollatorWithFlattening"
    /\ transformers_version.release = <<4, 44, 0>>

C4_NoOpAtOrAboveThreshold ==
    ~Below444(transformers_version)
    => /\ registered = <<>>
       /\ accel_prepare = 0
       /\ \A d \in DataLoaders : dataloaders[d].collate_fn \in HostCollators

\* C4 amended: at or above transformers 4.44 only augmentation is a no-op with a
\* warning (it registers no rule and warns once per call);
\* get_callbacks_and_ready_for_train still replaces accelerator.prepare, and a
\* patched prepare call on a single DataLoader with a DataCollatorForSeq2Seq still
\* replaces its collate_fn, with the framework's own DataCollatorWithFlattening.
C4_OnlyAugmentationIsNoOp ==
    [][~Below444(transformers_version)
       => /\ registered' = <<>>
          /\ last'.op = "augmentation"
                => warned' = warned + 1 /\ accel_prepare' = accel_prepare
                   /\ dataloaders' = dataloaders
          /\ last'.op = "get_callbacks_and_ready_for_train"
                => accel_prepare' = accel_prepare + 1 /\ warned' = warned
          /\ \A d \in DataLoaders :
                (PatchedCall /\ last'.args = <<d>> /\ IsSeq2Seq(dataloaders[d].collate_fn))
                => dataloaders'[d].collate_fn.cls = "transformers.DataCollatorWithFlattening"]_vars

C4_Witness ==
    /\ ~Below444(transformers_version)
    /\ registered = <<>> /\ warned = 1
    /\ accel_prepare >= 1
    /\ \E d \in DataLoaders :
          dataloaders[d].collate_fn.cls = "transformers.DataCollatorWithFlattening"

\* C5 as stated, on the runs in which the host calls
\* get_callbacks_and_ready_for_train once (so accelerator.prepare is reassigned
\* once): each data loader's collate_fn is reassigned at most once, and every
\* reassignment happens within the setup calls (augmentation,
\* get_callbacks_and_ready_for_train), none after they have returned.
C5_MutatedOnceDuringSetup ==
    [][assigns'.prepare <= 1
       => /\ \A d \in DataLoaders : assigns'.collate_fn[d] <= 1
          /\ assigns' # assigns
                => last'.op \in {"augmentation", "get_callbacks_and_ready_for_train"}]_vars

\* C5 amended: accelerator.prepare is reassigned only by
\* get_callbacks_and_ready_for_train, once per call of it; each data loader's
\* collate_fn is reassigned at most once, and that reassignment happens inside a
\* patched accelerator.prepare call on that single data loader, after the setup
\* calls have returned.
C5_AssignedOncePerLoader ==
    [][/\ (assigns'.prepare # assigns.prepare \/ accel_prepare' # accel_prepare)
             => /\ last'.op = "get_callbacks_and_ready_for_train"
                /\ assigns'.prepare = assigns.prepare + 1
       /\ \A d \in DataLoaders :
             (\/ assigns'.collate_fn[d] # assigns.collate_fn[d]
              \/ dataloaders'[d].collate_fn # dataloaders[d].collate_fn)
             => /\ PatchedCall /\ last'.args = <<d>>
                /\ assigns.collate_fn[d] = 0 /\ assigns'.collate_fn[d] = 1]_vars

C5_Witness ==
    /\ AfterPatchedCall
    /\ Len(last.args) = 1 /\ last.args[1] \in DataLoaders
    /\ assigns.collate_fn[last.args[1]] = 1
    /\ IsFlattening(dataloaders[last.args[1]].collate_fn)
    /\ last.outcome.exc = "TypeError"

\* C6: a patched prepare call with more than one positional argument, or whose
\* first positional argument is not a DataLoader, invokes the original prepare
\* exactly once with the same arguments and device_placement, returns what the
\* original returned and changes no data loader's collate_fn; no TypeError.
C6_OtherCallsForwarded ==
    [][(/\ PatchedCall
        /\ \/ Len(last'.args) > 1
           \/ Len(last'.args) = 1 /\ last'.args[1] \notin DataLoaders)
       => /\ last'.old_calls = << [args |-> last'.args,
                                   device_placement |-> last'.device_placement] >>
          /\ last'.outcome = Return(Prepared(last'.args, last'.device_placement))
          /\ dataloaders' = dataloaders
          /\ assigns' = assigns]_vars

C6_Witness ==
    /\ last.op = "prepare" /\ accel_prepare = 2
    /\ Len(last.args) = 2 /\ last.args[1] \in DataLoaders
    /\ dataloaders[last.args[1]].collate_fn.cls = "DefaultDataCollator"
    /\ last.device_placement # "None"
    /\ last.outcome.kind = "return"
    /\ Len(last.old_calls) = 1

\* C7: a patched prepare call with zero positional arguments is forwarded to the
\* original prepare with its device_placement and does not fail inside the patch.
C7_ZeroArgsForwarded ==
    (AfterPatchedCall /\ Len(last.args) = 0)
    => /\ last.outcome.kind = "return"
       /\ last.old_calls = << [args |-> <<>>, device_placement |-> last.device_placement] >>

\* C8: on the single-DataLoader path of the patched prepare the original prepare is
\* never invoked, whether the call returns or raises; what is returned is the
\* caller's own data loader with only collate_fn replaced, and device_placement
\* has no influence on the outcome.
C8_OriginalNeverInvoked ==
    [][\A d \in DataLoaders :
         (PatchedCall /\ last'.args = <<d>>)
         => /\ last'.old_calls = <<>>
            /\ \/ last'.outcome = Raise("TypeError") /\ dataloaders' = dataloaders
               \/ last'.outcome = Return(Ref(d)) /\ OnlyCollateFnOf(d)
            /\ \A dp \in DevicePlacements :
                  LET r == accelerator_prepare(accel_prepare, <<d>>, dp, dataloaders, next_id,
                               import_DataCollatorWithFlattening(transformers_version))
                  IN  r.outcome = last'.outcome /\ r.dataloaders = dataloaders']_vars

C8_Witness ==
    /\ AfterPatchedCall
    /\ Len(last.args) = 1 /\ last.args[1] \in DataLoaders
    /\ last.device_placement # "None"
    /\ last.outcome = Return(Ref(last.args[1]))
    /\ last.old_calls = <<>>
    /\ assigns.collate_fn[last.args[1]] = 1

====
